---- MODULE Spec2Model ----
(***************************************************************************)
(* FileFox (src/src/main.rs): the MyExplorerApp state, its methods, the    *)
(* search worker threads and their mpsc channels, and the per-frame        *)
(* update() handler of the egui presentation layer.                        *)
(*                                                                         *)
(* Strings are sequences of character codes, paths are sequences of        *)
(* component names, Option<T> is a set with at most one element            *)
(* ({} is None, {x} is Some(x)).                                           *)
(***************************************************************************)
EXTENDS Naturals, Sequences, FiniteSets, TLC

\* ------------------------------------------------------------ bounds
\* Directory nesting below the root of the modelled file system.
MaxDepth == 2
\* Non-empty searches started during one run (caps the session counter).
MaxSessions == 2
\* Successful renames and deletions during one run.
MaxMutations == 1

\* ------------------------------------------------------- strings, paths
\* '/' , the folder marker appended to directory names (main.rs:69).
Slash == 47

\* Entry names that occur in the modelled directories: "a", "a.b", "B".
Names == { <<97>>, <<97, 46, 98>>, <<66>> }

\* Texts the user may type into the search field: "" and "A".
Queries == { <<>>, <<65>> }

\* All paths up to MaxDepth components; <<>> is the file-system root.
Paths == UNION { [1..k -> Names] : k \in 0..MaxDepth }

Root == <<>>

\* char::to_lowercase on the ASCII range.
LowerChar(c) == IF c >= 65 /\ c <= 90 THEN c + 32 ELSE c

\* str::to_lowercase
ToLowercase(s) == [i \in 1..Len(s) |-> LowerChar(s[i])]

\* str::contains: q occurs in s as a contiguous substring.
Contains(s, q) ==
    \E i \in 0..Len(s) : i + Len(q) <= Len(s) /\ SubSeq(s, i + 1, i + Len(q)) = q

\* Ord for String: byte-wise lexicographic, a proper prefix sorts first.
StrLess(x, y) ==
    \E k \in 0..Len(x) :
        /\ k <= Len(y)
        /\ SubSeq(x, 1, k) = SubSeq(y, 1, k)
        /\ \/ k = Len(x) /\ k < Len(y)
           \/ k < Len(x) /\ k < Len(y) /\ x[k + 1] < y[k + 1]

\* <[String]>::sort_unstable on a vector of pairwise distinct strings.
RECURSIVE SortUnstable(_)
SortUnstable(S) ==
    IF S = {} THEN <<>>
    ELSE LET m == CHOOSE x \in S : \A y \in S \ {x} : StrLess(x, y)
         IN  <<m>> \o SortUnstable(S \ {m})

\* Path::file_name: the final component, None ("" after unwrap_or) for the root.
FileName(p) == IF Len(p) = 0 THEN <<>> ELSE p[Len(p)]

\* PathBuf::push of one component.
Push(p, n) == Append(p, n)

\* Path::parent / PathBuf::pop
Parent(p) == SubSeq(p, 1, Len(p) - 1)

IsPrefix(p, q) == Len(p) <= Len(q) /\ SubSeq(q, 1, Len(p)) = p

\* -------------------------------------------------------- file system
\* A file-system state maps every path to "none", "file" or "dir".
Kind(f, p) == IF p \in DOMAIN f THEN f[p] ELSE "none"

\* Path::is_dir
IsDir(f, p) == Kind(f, p) = "dir"

Exists(f, p) == Kind(f, p) # "none"

\* Names of the entries std::fs::read_dir yields for directory d.
Children(f, d) == { n \in Names : Exists(f, Push(d, n)) }

\* Paths of the subtree rooted at p, p included (what WalkDir visits).
Subtree(f, p) == { q \in DOMAIN f : Exists(f, q) /\ IsPrefix(p, q) }

\* The directory tree the browser starts in:  /a/  /a/B  /a.b  /B
InitTree ==
    [p \in Paths |->
        CASE p = Root -> "dir"
          [] p = << <<97>> >> -> "dir"
          [] p = << <<97>>, <<66>> >> -> "file"
          [] p = << <<97, 46, 98>> >> -> "file"
          [] p = << <<66>> >> -> "file"
          [] OTHER -> "none"]

\* ---------------------------------------------------------------- state
VARIABLES
    app,         \* the MyExplorerApp struct
    fs,          \* the file system the process sees
    chan,        \* chan[s]: values pending in the mpsc channel of session s
    worker,      \* worker[s]: the thread spawned for session s
    nextSession, \* the number of the next channel/thread to be created
    mutations,   \* the number of successful renames and deletions so far
    deliveries,  \* history: deliveries[s] counts the results of s stored by a poll
    last         \* history: what the last frame did (event) and how its call of
                 \* read_current_directory_entries ended (read)

vars == <<app, fs, chan, worker, nextSession, mutations, deliveries, last>>

Sessions == 1..MaxSessions

\* The state a method works on; the methods below map a world to a world.
World ==
    [app |-> app, fs |-> fs, chan |-> chan, worker |-> worker,
     next |-> nextSession, deliveries |-> deliveries, read |-> "none"]

\* Dropping a Receiver destroys the values still pending in its channel.
DropReceiver(c, rcv) == [s \in DOMAIN c |-> IF s \in rcv THEN <<>> ELSE c[s]]

\* The display string of entry n of directory d: folders carry a trailing '/'.
Display(f, d, n) == IF IsDir(f, Push(d, n)) THEN Append(n, Slash) ELSE n

\* str::ends_with('/')
EndsWithSlash(e) == Len(e) > 0 /\ e[Len(e)] = Slash

\* str::trim_end_matches('/')
RECURSIVE TrimEndSlash(_)
TrimEndSlash(e) ==
    IF EndsWithSlash(e) THEN TrimEndSlash(SubSeq(e, 1, Len(e) - 1)) ELSE e

\* The name update() derives from a displayed entry.
EntryName(e) == IF EndsWithSlash(e) THEN TrimEndSlash(e) ELSE e

\* The entries vector read_current_directory_entries builds on Ok.
ListedEntries(f, d) == SortUnstable({ Display(f, d, n) : n \in Children(f, d) })

\* A read that clears the vector only once read_dir has succeeded.
EntriesKeptOnFailedRead(old) == old

\* self.entries.clear() followed by the Err branch: nothing is pushed.
EntriesAfterFailedRead(old) == <<>>

\* A reload that refreshes the entries and leaves the search fields alone.
ReadKeepsSearch(w, readOk) ==
    LET a == w.app
        listed == readOk /\ IsDir(w.fs, a.current_dir)
    IN  [w EXCEPT
            !.app.entries = IF listed THEN ListedEntries(w.fs, a.current_dir)
                            ELSE EntriesAfterFailedRead(a.entries),
            !.read = IF listed THEN "ok" ELSE "err"]

\* read_current_directory_entries; readOk: the OS lets read_dir succeed.
ReadCurrentDirectoryEntries(w, readOk) ==
    LET a == w.app
        listed == readOk /\ IsDir(w.fs, a.current_dir)
    IN  [w EXCEPT
            !.app = [a EXCEPT
                !.entries = IF listed THEN ListedEntries(w.fs, a.current_dir)
                            ELSE EntriesAfterFailedRead(a.entries),
                !.recursive_search_results = {},
                !.is_searching = FALSE,
                !.search_sender = {},
                !.search_receiver = {}],
            !.chan = DropReceiver(w.chan, a.search_receiver),
            !.read = IF listed THEN "ok" ELSE "err"]

\* navigate_to
NavigateTo(w, entry_name, readOk) ==
    LET new_path == Push(w.app.current_dir, entry_name)
    IN  IF IsDir(w.fs, new_path)
        THEN ReadCurrentDirectoryEntries(
                 [w EXCEPT !.app.current_dir = new_path], readOk)
        ELSE w

\* A navigate_up that lists the parent and leaves the search fields alone.
NavigateUpKeepsSearch(w, readOk) ==
    IF Len(w.app.current_dir) > 0
    THEN ReadKeepsSearch(
             [w EXCEPT !.app.current_dir = Parent(w.app.current_dir)], readOk)
    ELSE w

\* navigate_up
NavigateUp(w, readOk) ==
    IF Len(w.app.current_dir) > 0
    THEN ReadCurrentDirectoryEntries(
             [w EXCEPT !.app.current_dir = Parent(w.app.current_dir)], readOk)
    ELSE w

\* std::fs::rename: whether it returns Ok (osOk: no permission or sharing error).
RenameOk(f, old, new, osOk) ==
    /\ osOk
    /\ Exists(f, old)
    /\ new \in DOMAIN f
    /\ \/ old = new
       \/ ~Exists(f, new)
       \/ Kind(f, old) = "file" /\ Kind(f, new) = "file"
       \/ Kind(f, old) = "dir" /\ Kind(f, new) = "dir" /\ Children(f, new) = {}

\* std::fs::rename: the file system after a successful rename.
RenameFs(f, old, new) ==
    IF old = new THEN f
    ELSE [q \in DOMAIN f |->
            IF IsPrefix(new, q)
            THEN Kind(f, old \o SubSeq(q, Len(new) + 1, Len(q)))
            ELSE IF IsPrefix(old, q) THEN "none" ELSE f[q]]

\* rename_entry
RenameEntry(w, old_name, new_name, osOk, readOk) ==
    LET old_path == Push(w.app.current_dir, old_name)
        new_path == Push(w.app.current_dir, new_name)
    IN  IF RenameOk(w.fs, old_path, new_path, osOk)
        THEN ReadCurrentDirectoryEntries(
                 [w EXCEPT !.fs = RenameFs(w.fs, old_path, new_path)], readOk)
        ELSE w

\* std::fs::remove_dir_all / remove_file: whether it returns Ok.
DeleteOk(f, p, osOk) == osOk /\ Exists(f, p)

\* The file system after remove_dir_all (a directory) or remove_file.
DeleteFs(f, p) == [q \in DOMAIN f |-> IF IsPrefix(p, q) THEN "none" ELSE f[q]]

\* A delete_entry that reloads the directory whether or not the call failed.
DeleteEntryAlwaysReloads(w, entry_name, osOk, readOk) ==
    LET path_to_delete == Push(w.app.current_dir, entry_name)
    IN  IF DeleteOk(w.fs, path_to_delete, osOk)
        THEN ReadCurrentDirectoryEntries(
                 [w EXCEPT !.fs = DeleteFs(w.fs, path_to_delete)], readOk)
        ELSE ReadCurrentDirectoryEntries(w, readOk)

\* delete_entry
DeleteEntry(w, entry_name, osOk, readOk) ==
    LET path_to_delete == Push(w.app.current_dir, entry_name)
    IN  IF DeleteOk(w.fs, path_to_delete, osOk)
        THEN ReadCurrentDirectoryEntries(
                 [w EXCEPT !.fs = DeleteFs(w.fs, path_to_delete)], readOk)
        ELSE w

\* A walk with min_depth(1): the start path itself is never reported.
FindEntriesBelowStart(f, start_path, query_lower) ==
    { p \in Subtree(f, start_path) \ {start_path} :
        Contains(ToLowercase(FileName(p)), query_lower) }

\* find_entries_recursively; the Vec is modelled by the set of its paths
\* (par_bridge leaves their order unspecified).
FindEntriesRecursively(f, start_path, query_lower) ==
    { p \in Subtree(f, start_path) :
        Contains(ToLowercase(FileName(p)), query_lower) }

\* ------------------------------------------------- search session, poll
\* mpsc::channel(): the number of the channel execute_search creates.
NewChannel(w) == w.next

\* A start of a search that leaves the displayed results in place.
StartSessionKeepsResults(w, query_lower) ==
    LET s == w.next
    IN  [w EXCEPT
            !.app.search_sender = {s},
            !.app.search_receiver = {s},
            !.app.is_searching = TRUE,
            !.chan = DropReceiver(w.chan, w.app.search_receiver \ {s}),
            !.worker[w.next] = [state |-> "running",
                                dir |-> w.app.current_dir,
                                query |-> query_lower,
                                seen |-> {}],
            !.next = w.next + 1]

\* execute_search, from the query test on: the channel is created, the old
\* receiver dropped, the worker thread spawned with its own copy of
\* current_dir and of the lowercased query.
StartSession(w, query_lower) ==
    LET s == NewChannel(w)
    IN  [w EXCEPT
            !.app.search_sender = {s},
            !.app.search_receiver = {s},
            !.app.is_searching = TRUE,
            !.app.recursive_search_results = {},
            !.chan = DropReceiver(w.chan, w.app.search_receiver \ {s}),
            !.worker[w.next] = [state |-> "running",
                                dir |-> w.app.current_dir,
                                query |-> query_lower,
                                seen |-> {}],
            !.next = w.next + 1]

\* An execute_search without the test for the empty query.
ExecuteSearchAnyQuery(w) == StartSession(w, ToLowercase(w.app.search_query))

\* execute_search
ExecuteSearch(w) ==
    LET query_lower == ToLowercase(w.app.search_query)
    IN  IF query_lower = <<>>
        THEN [w EXCEPT !.app.recursive_search_results = {},
                       !.app.is_searching = FALSE]
        ELSE StartSession(w, query_lower)

\* Whether a Sender of channel s is alive: the worker's until its thread
\* ends, and the clone execute_search keeps in search_sender.
SenderAlive(w, s) == w.worker[s].state = "running" \/ s \in w.app.search_sender

\* Receiver::try_recv on the channel of session s.
TryRecv(w, s) ==
    IF w.chan[s] # <<>> THEN "Ok"
    ELSE IF SenderAlive(w, s) THEN "Empty"
    ELSE "Disconnected"

\* An Ok branch that stores the result and keeps both channel ends.
PollOkKeepsHandle(w, s) ==
    [w EXCEPT
        !.app.recursive_search_results = {Head(w.chan[s])},
        !.app.is_searching = FALSE,
        !.chan[s] = Tail(@),
        !.deliveries[Head(w.chan[s]).session] = @ + 1]

\* The Ok(results) branch of the poll.
PollOk(w, s) ==
    [w EXCEPT
        !.app.recursive_search_results = {Head(w.chan[s])},
        !.app.is_searching = FALSE,
        !.app.search_sender = {},
        !.app.search_receiver = {},
        !.chan[s] = <<>>,
        !.deliveries[Head(w.chan[s]).session] = @ + 1]

\* The Err(TryRecvError::Disconnected) branch of the poll.
PollDisconnected(w, s) ==
    [w EXCEPT
        !.app.is_searching = FALSE,
        !.app.search_sender = {},
        !.app.search_receiver = {}]

\* A poll whose Ok branch releases the Receiver and keeps the Sender clone.
PollKeepsSender(w) ==
    IF w.app.search_receiver = {} THEN w
    ELSE LET s == CHOOSE x \in w.app.search_receiver : TRUE
             r == TryRecv(w, s)
         IN  CASE r = "Ok" -> [PollOk(w, s) EXCEPT !.app.search_sender = {s}]
               [] r = "Empty" -> w
               [] r = "Disconnected" -> PollDisconnected(w, s)

\* update(): the check for search results at the start of every frame.
Poll(w) ==
    IF w.app.search_receiver = {} THEN w
    ELSE LET s == CHOOSE x \in w.app.search_receiver : TRUE
             r == TryRecv(w, s)
         IN  CASE r = "Ok" -> PollOk(w, s)
               [] r = "Empty" -> w
               [] r = "Disconnected" -> PollDisconnected(w, s)

\* A send into whichever channel the application listens to at the moment
\* (one shared delivery slot instead of a channel per search).
WorkerSendShared(w, s, found_paths) ==
    IF w.app.search_receiver # {}
    THEN LET c == CHOOSE x \in w.app.search_receiver : TRUE
         IN  [w EXCEPT !.chan[c] =
                 Append(@, [session |-> s, root |-> w.worker[s].dir,
                            query |-> w.worker[s].query, paths |-> found_paths])]
    ELSE w

\* A worker that sends its result twice.
WorkerSendTwice(w, s, found_paths) ==
    IF s \in w.app.search_receiver
    THEN LET v == [session |-> s, root |-> w.worker[s].dir,
                   query |-> w.worker[s].query, paths |-> found_paths]
         IN  [w EXCEPT !.chan[s] = Append(Append(@, v), v)]
    ELSE w

\* Sender::send by the worker of session s: Ok iff the Receiver of its
\* channel is still alive, and then the value is pending in that channel.
WorkerSend(w, s, found_paths) ==
    IF s \in w.app.search_receiver
    THEN [w EXCEPT !.chan[s] =
             Append(@, [session |-> s, root |-> w.worker[s].dir,
                        query |-> w.worker[s].query, paths |-> found_paths])]
    ELSE w

\* ------------------------------------------------------------- actions
\* The frame's result becomes the next state. event: "navigate" (current_dir
\* was replaced), "mutate_ok" / "mutate_err" (rename_entry or delete_entry
\* was called and succeeded / failed), "search" / "search_empty"
\* (execute_search was called), "cancel" (the popup's Cancel), else "none".
Commit(w, event) ==
    /\ app' = w.app
    /\ fs' = w.fs
    /\ chan' = w.chan
    /\ worker' = w.worker
    /\ nextSession' = w.next
    /\ mutations' = IF event = "mutate_ok" THEN mutations + 1 ELSE mutations
    /\ deliveries' = w.deliveries
    /\ last' = [event |-> event, read |-> w.read]

\* A thread that has ended holds no copy of the directory and query any more.
EndedWorker(how) == [state |-> how, dir |-> Root, query |-> <<>>, seen |-> {}]

\* The closure given to filter_map: whether the entry at p is kept.
Matches(p, query_lower) == Contains(ToLowercase(FileName(p)), query_lower)

\* An iteration that hands every match to the channel as soon as it is found.
WorkerVisitStreams(s, p) ==
    /\ worker[s].state = "running"
    /\ p \in Subtree(fs, worker[s].dir) \ worker[s].seen
    /\ p = worker[s].dir \/ Parent(p) \in worker[s].seen
    /\ worker' = [worker EXCEPT ![s].seen = @ \cup {p}]
    /\ chan' = IF Matches(p, worker[s].query)
               THEN WorkerSend(World, s, {p}).chan
               ELSE chan
    /\ UNCHANGED <<app, fs, nextSession, mutations, deliveries, last>>

\* One iteration of the walk of session s: WalkDir yields entry p (the start
\* path first, an entry after its directory) and the filter has seen it;
\* what is collected stays inside the thread.
WorkerVisit(s, p) ==
    /\ worker[s].state = "running"
    /\ p \in Subtree(fs, worker[s].dir) \ worker[s].seen
    /\ p = worker[s].dir \/ Parent(p) \in worker[s].seen
    /\ worker' = [worker EXCEPT ![s].seen = @ \cup {p}]
    /\ UNCHANGED <<app, fs, chan, nextSession, mutations, deliveries, last>>

\* The worker thread of session s: the walk (what is left of it), then the
\* send, then the thread ends and its Sender is dropped.
WorkerComplete(s) ==
    /\ worker[s].state = "running"
    /\ LET found_paths ==
               { p \in worker[s].seen : Matches(p, worker[s].query) }
                   \cup (FindEntriesRecursively(fs, worker[s].dir, worker[s].query)
                             \ worker[s].seen)
           w == WorkerSend(World, s, found_paths)
       IN  /\ chan' = w.chan
           /\ worker' = [worker EXCEPT ![s] = EndedWorker(
                             IF w.chan[s] # <<>> THEN "sent" ELSE "dropped")]
    /\ UNCHANGED <<app, fs, nextSession, mutations, deliveries, last>>

\* The worker thread of session s ends by a panic before it sends.
WorkerPanic(s) ==
    /\ worker[s].state = "running"
    /\ worker' = [worker EXCEPT ![s] = EndedWorker("failed")]
    /\ UNCHANGED <<app, fs, chan, nextSession, mutations, deliveries, last>>

\* What update() draws, decided on the state after the frame's poll.
NormalView(a) == a.recursive_search_results = {}

Range(q) == { q[i] : i \in 1..Len(q) }

\* Entry e is drawn as a button (it is listed and not being renamed).
Clickable(a, e) ==
    NormalView(a) /\ e \in Range(a.entries) /\ a.rename_mode # {EntryName(e)}

\* Entry e is drawn as the rename text field.
Renaming(a, e) ==
    NormalView(a) /\ e \in Range(a.entries) /\ a.rename_mode = {EntryName(e)}

AllEntries == Names \cup { Append(n, Slash) : n \in Names }

\* A frame without a UI event: only the poll.
UpdateIdle == Commit(Poll(World), "none")

\* The "Up" button.
UpdateUp ==
    \E readOk \in BOOLEAN :
        LET w1 == Poll(World)
        IN  Commit(NavigateUp(w1, readOk),
                   IF Len(w1.app.current_dir) > 0 THEN "navigate" ELSE "none")

\* Double click or "Open" on an entry: a folder is entered, a file is
\* handed to the shell.
UpdateOpenEntry(e) ==
    \E readOk \in BOOLEAN :
        LET w1 == Poll(World)
        IN  /\ Clickable(w1.app, e)
            /\ IF EndsWithSlash(e)
               THEN Commit(NavigateTo(w1, EntryName(e), readOk),
                           IF IsDir(w1.fs, Push(w1.app.current_dir, EntryName(e)))
                           THEN "navigate" ELSE "none")
               ELSE Commit(w1, "none")

\* "Delete" in an entry's context menu.
UpdateDelete(e) ==
    \E osOk \in BOOLEAN, readOk \in BOOLEAN :
        LET w1 == Poll(World)
        IN  /\ Clickable(w1.app, e)
            /\ mutations < MaxMutations
            /\ Commit(DeleteEntry(w1, EntryName(e), osOk, readOk),
                      IF DeleteOk(w1.fs, Push(w1.app.current_dir, EntryName(e)), osOk)
                      THEN "mutate_ok" ELSE "mutate_err")

\* "Rename" in an entry's context menu.
UpdateRenameStart(e) ==
    LET w1 == Poll(World)
    IN  /\ Clickable(w1.app, e)
        /\ Commit([w1 EXCEPT !.app.rename_mode = {EntryName(e)}], "none")

\* Enter in the rename text field holding new_name, then the delayed reset
\* of rename_mode.
UpdateRenameConfirm(e, new_name) ==
    \E osOk \in BOOLEAN, readOk \in BOOLEAN :
        LET w1 == Poll(World)
            w2 == IF new_name # <<>>
                  THEN RenameEntry(w1, EntryName(e), new_name, osOk, readOk)
                  ELSE w1
            done == RenameOk(w1.fs, Push(w1.app.current_dir, EntryName(e)),
                             Push(w1.app.current_dir, new_name), osOk)
        IN  /\ Renaming(w1.app, e)
            /\ new_name = <<>> \/ mutations < MaxMutations
            /\ Commit([w2 EXCEPT !.app.rename_mode = {}],
                      IF new_name = <<>> THEN "none"
                      ELSE IF done THEN "mutate_ok" ELSE "mutate_err")

\* "Cancel" beside the rename text field.
UpdateRenameCancel(e) ==
    LET w1 == Poll(World)
    IN  /\ Renaming(w1.app, e)
        /\ Commit([w1 EXCEPT !.app.rename_mode = {}], "none")

\* "Search" in an entry's context menu: the popup opens.
UpdateSearchMenu(e) ==
    LET w1 == Poll(World)
    IN  /\ Clickable(w1.app, e)
        /\ Commit([w1 EXCEPT !.app.show_search_popup = TRUE,
                             !.app.search_query = <<>>,
                             !.app.recursive_search_results = {}],
                  "none")

\* The popup's text field is edited to hold q.
UpdateEditQuery(q) ==
    LET w1 == Poll(World)
    IN  /\ w1.app.show_search_popup
        /\ Commit([w1 EXCEPT !.app.search_query = q], "none")

\* A "Search" button that stays enabled while a search is running.
UpdateSearchWhileSearching ==
    LET w1 == Poll(World)
        empty == ToLowercase(w1.app.search_query) = <<>>
    IN  /\ w1.app.show_search_popup
        /\ empty \/ w1.next <= MaxSessions
        /\ Commit([ExecuteSearch(w1) EXCEPT !.app.show_search_popup = FALSE],
                  IF empty THEN "search_empty" ELSE "search")

\* The popup's "Search" button or Enter in its text field, both only while
\* no search is running; the popup closes.
UpdateSearch ==
    LET w1 == Poll(World)
        empty == ToLowercase(w1.app.search_query) = <<>>
    IN  /\ w1.app.show_search_popup
        /\ ~w1.app.is_searching
        /\ empty \/ w1.next <= MaxSessions
        /\ Commit([ExecuteSearch(w1) EXCEPT !.app.show_search_popup = FALSE],
                  IF empty THEN "search_empty" ELSE "search")

\* A Cancel that clears the indicator and the results, not the channel.
PopupCancelKeepsChannel(w) ==
    [w EXCEPT
        !.app.recursive_search_results = {},
        !.app.is_searching = FALSE]

\* The body of the popup's "Cancel" button.
PopupCancel(w) ==
    [w EXCEPT
        !.app.recursive_search_results = {},
        !.app.is_searching = FALSE,
        !.app.search_sender = {},
        !.app.search_receiver = {},
        !.chan = DropReceiver(w.chan, w.app.search_receiver)]

\* The popup's "Cancel" button; the popup closes.
UpdatePopupCancel ==
    LET w1 == Poll(World)
    IN  /\ w1.app.show_search_popup
        /\ Commit([PopupCancel(w1) EXCEPT !.app.show_search_popup = FALSE],
                  "cancel")

\* An activation of a search result that navigates without path.is_dir().
UpdateOpenResultAlwaysNavigates(p) ==
    \E readOk \in BOOLEAN :
        LET w1 == Poll(World)
            w2 == ReadCurrentDirectoryEntries(
                      [w1 EXCEPT !.app.current_dir = p], readOk)
        IN  /\ \E r \in w1.app.recursive_search_results : p \in r.paths
            /\ Commit([w2 EXCEPT !.app.recursive_search_results = {}],
                      "navigate")

\* Double click or "Open" on search result p: a folder becomes the current
\* directory (delayed navigation), a file is handed to the shell.
UpdateOpenResult(p) ==
    \E readOk \in BOOLEAN :
        LET w1 == Poll(World)
            w2 == ReadCurrentDirectoryEntries(
                      [w1 EXCEPT !.app.current_dir = p], readOk)
        IN  /\ \E r \in w1.app.recursive_search_results : p \in r.paths
            /\ IF IsDir(w1.fs, p)
               THEN Commit([w2 EXCEPT !.app.recursive_search_results = {}],
                           "navigate")
               ELSE Commit(w1, "none")

\* MyExplorerApp::default(): the fields' initial values, then
\* read_current_directory_entries.
DefaultApp(dir) ==
    [current_dir |-> dir,
     entries |-> <<>>,
     recursive_search_results |-> {},
     rename_mode |-> {},
     show_search_popup |-> FALSE,
     search_query |-> <<>>,
     search_sender |-> {},
     search_receiver |-> {},
     is_searching |-> FALSE]

NoWorker == [state |-> "none", dir |-> Root, query |-> <<>>, seen |-> {}]

\* The state after construction when the process starts in a directory of
\* the file system tree.
InitIn(tree) ==
    \E dir \in Paths, readOk \in BOOLEAN :
        /\ IsDir(tree, dir)
        /\ LET w0 == [app |-> DefaultApp(dir), fs |-> tree,
                      chan |-> [s \in Sessions |-> <<>>],
                      worker |-> [s \in Sessions |-> NoWorker],
                      next |-> 1,
                      deliveries |-> [s \in Sessions |-> 0],
                      read |-> "none"]
               w == ReadCurrentDirectoryEntries(w0, readOk)
           IN  /\ app = w.app
               /\ fs = w.fs
               /\ chan = w.chan
               /\ worker = w.worker
               /\ nextSession = w.next
               /\ deliveries = w.deliveries
               /\ mutations = 0
               /\ last = [event |-> "none", read |-> w.read]

Init == InitIn(InitTree)

Next ==
    \/ UpdateIdle
    \/ UpdateUp
    \/ \E e \in AllEntries : UpdateOpenEntry(e)
    \/ \E e \in AllEntries : UpdateDelete(e)
    \/ \E e \in AllEntries : UpdateRenameStart(e)
    \/ \E e \in AllEntries, n \in Names \cup {<<>>} : UpdateRenameConfirm(e, n)
    \/ \E e \in AllEntries : UpdateRenameCancel(e)
    \/ \E e \in AllEntries : UpdateSearchMenu(e)
    \/ \E q \in Queries : UpdateEditQuery(q)
    \/ UpdateSearch
    \/ UpdatePopupCancel
    \/ \E p \in Paths : UpdateOpenResult(p)
    \/ \E s \in Sessions : WorkerComplete(s)
    \/ \E s \in Sessions : WorkerPanic(s)

Spec == Init /\ [][Next]_vars

\* The presentation layer keeps drawing frames (the spinner requests
\* repaints while a search runs), and a spawned thread runs to its end.
FairSpec ==
    /\ Spec
    /\ WF_vars(UpdateIdle)
    /\ \A s \in Sessions : WF_vars(WorkerComplete(s) \/ WorkerPanic(s))

\* ------------------------------------------- the walk, step by step
\* The tree with the given directories and files.
MakeTree(dirs, files) ==
    [p \in Paths |-> IF p \in dirs THEN "dir"
                     ELSE IF p \in files THEN "file" ELSE "none"]

\* Directory trees a search may walk:
\*   /a/  /a/B  /a.b  /B          (InitTree)
\*   /B/  /B/a/  /B/B  /a
\*   /a.b/  /a.b/a.b  /a.b/B  /a
WalkTrees ==
    { InitTree,
      MakeTree({ Root, << <<66>> >>, << <<66>>, <<97>> >> },
               { << <<66>>, <<66>> >>, << <<97>> >> }),
      MakeTree({ Root, << <<97, 46, 98>> >> },
               { << <<97, 46, 98>>, <<97, 46, 98>> >>,
                 << <<97, 46, 98>>, <<66>> >>, << <<97>> >> }) }

\* Texts typed into the search field: "A", "b", ".B", "ab".
WalkQueries == { <<65>>, <<98>>, <<46, 66>>, <<97, 98>> }

WalkInit == \E tree \in WalkTrees : InitIn(tree)

\* The browser is used for searching only, and the walk of a worker thread
\* is interleaved entry by entry with the frames.
WalkNext ==
    \/ UpdateIdle
    \/ \E e \in AllEntries : UpdateSearchMenu(e)
    \/ \E q \in WalkQueries : UpdateEditQuery(q)
    \/ UpdateSearch
    \/ UpdatePopupCancel
    \/ \E s \in Sessions, p \in Paths : WorkerVisit(s, p)
    \/ \E s \in Sessions : WorkerComplete(s)

WalkSpec == WalkInit /\ [][WalkNext]_vars

\* ------------------------------------------------------------ the claims
current_dir == app.current_dir
entries == app.entries
recursive_search_results == app.recursive_search_results
is_searching == app.is_searching
search_sender == app.search_sender
search_receiver == app.search_receiver
rename_mode == app.rename_mode
search_query == app.search_query

\* The step is a frame of update() (no worker thread ends in it) whose event
\* is ev.
Frame(ev) ==
    /\ last'.event = ev
    /\ \A s \in Sessions : worker[s].state = "running" => worker'[s].state = "running"

\* The step is a frame in which read_current_directory_entries failed.
FrameWithFailedRead ==
    /\ last'.read = "err"
    /\ \A s \in Sessions : worker[s].state = "running" => worker'[s].state = "running"

\* The session started last (0 before the first search).
LatestSession == nextSession - 1

\* C1: once search B has been started, the only result ever stored in
\* recursive_search_results is B's: a stored result always belongs to the
\* session started last, and no value of an older session is pending in a
\* channel from which a poll could still take it, whatever the order in
\* which the workers complete and the frames poll.
C1_OnlyLatestSearchStored ==
    /\ \A r \in recursive_search_results : r.session = LatestSession
    /\ \A s \in Sessions : \A i \in 1..Len(chan[s]) :
           s = LatestSession /\ chan[s][i].session = LatestSession

\* C1: search B's result is displayed, search A was never delivered, and A's
\* worker has completed with its send refused.
C1_Witness ==
    /\ nextSession = 3
    /\ \E r \in recursive_search_results : r.session = 2
    /\ worker[1].state = "dropped"
    /\ worker[2].state = "sent"
    /\ deliveries[1] = 0

\* C2: a navigation (Navigate, NavigateUp) or the popup's Cancel leaves no
\* search behind (is_searching false, no channel end held), and a session
\* whose channel is not listened to is never delivered afterwards: its
\* worker's value is never pending and no poll stores it or touches
\* recursive_search_results or is_searching.
C2_AbandonedSessionIsDropped ==
    [][ /\ (Frame("navigate") \/ Frame("cancel")) =>
               /\ ~is_searching'
               /\ search_receiver' = {}
               /\ search_sender' = {}
        /\ \A s \in Sessions :
               (s < nextSession /\ s \notin search_receiver) =>
                   /\ deliveries'[s] = deliveries[s]
                   /\ chan'[s] = <<>>
        /\ (search_receiver = {} /\ Frame("none")) =>
               /\ is_searching' = is_searching
               /\ recursive_search_results' = recursive_search_results
      ]_vars

\* C2: a search was cancelled or navigated away from, its orphaned worker
\* completed afterwards, and nothing of it is displayed.
C2_Witness ==
    /\ last.event \in {"navigate", "cancel"}
    /\ ~is_searching
    /\ search_receiver = {}
    /\ worker[1].state = "dropped"
    /\ deliveries[1] = 0
    /\ recursive_search_results = {}

\* C3: a session's result is stored at most once, and once a result is
\* stored no handle is left, so that every later poll changes nothing.
C3_DeliveredAtMostOnce ==
    /\ \A s \in Sessions : deliveries[s] <= 1
    /\ recursive_search_results # {} =>
           /\ search_receiver = {}
           /\ ~is_searching
           /\ Poll(World) = World

\* C3: the result of session 1 has been stored and is displayed.
C3_Witness ==
    /\ deliveries[1] = 1
    /\ \E r \in recursive_search_results : r.session = 1
    /\ search_receiver = {}

\* C4: a session that is still listened to and whose worker thread has ended
\* (after its send, or by a panic before it) does not stay Running: under
\* fair polling it eventually is no longer the running search (is_searching
\* becomes false, or the session is abandoned or replaced).
C4_EndedWorkerStopsSearching ==
    \A s \in Sessions :
        (s \in search_receiver /\ worker[s].state \in {"sent", "dropped", "failed"})
            ~> ~(is_searching /\ s \in search_receiver)

\* C5: a search started with an empty query creates no channel and spawns
\* no worker, and leaves no search active: is_searching false, no channel
\* end held, nothing pending, nothing displayed; and while no channel is
\* listened to a frame never makes a result appear.
C5_EmptyQueryStartsNothing ==
    [][ /\ Frame("search_empty") =>
               /\ nextSession' = nextSession
               /\ worker' = worker
               /\ ~is_searching'
               /\ search_receiver' = {}
               /\ search_sender' = {}
               /\ recursive_search_results' = {}
               /\ \A s \in Sessions : chan'[s] = <<>>
        /\ search_receiver = {} =>
               recursive_search_results' \subseteq recursive_search_results
      ]_vars

\* C5: a result of an earlier search was delivered, and the last frame was a
\* search with an empty query, after which nothing is displayed or running.
C5_Witness ==
    /\ last.event = "search_empty"
    /\ deliveries[1] = 1
    /\ recursive_search_results = {}
    /\ ~is_searching
    /\ search_receiver = {}

\* C6 as stated: a successful rename or delete keeps a running search
\* running, its channel still listened to.
C6_MutationKeepsSearch ==
    [][ (Frame("mutate_ok") /\ is_searching) =>
            /\ is_searching'
            /\ search_receiver' = search_receiver
      ]_vars

\* C6 as amended: a successful rename or delete reloads the entry list and
\* discards any search: afterwards is_searching is false, no channel end is
\* held, nothing is pending or displayed, and the entries are those of the
\* directory as it now is (or none when the reload fails).
C6_MutationDiscardsSearch ==
    [][ Frame("mutate_ok") =>
            /\ ~is_searching'
            /\ search_receiver' = {}
            /\ search_sender' = {}
            /\ recursive_search_results' = {}
            /\ \A s \in Sessions : chan'[s] = <<>>
            /\ entries' = IF last'.read = "ok"
                          THEN ListedEntries(fs', current_dir')
                          ELSE <<>>
      ]_vars

\* C6: a rename or delete has succeeded while the worker of the one search
\* started so far was still running; the search is gone, undelivered.
C6_Witness ==
    /\ last.event = "mutate_ok"
    /\ nextSession = 2
    /\ worker[1].state = "running"
    /\ deliveries[1] = 0
    /\ ~is_searching
    /\ search_receiver = {}

\* C7 as stated: after a failed read of the current directory the entries
\* list equals the list before it.
C7_FailedReadKeepsEntries ==
    [][ FrameWithFailedRead => entries' = entries ]_vars

\* C7 as amended: after a failed read of the current directory the entries
\* list is empty and the search fields are reset as by a successful read.
C7_FailedReadClearsEntries ==
    [][ FrameWithFailedRead =>
            /\ entries' = <<>>
            /\ ~is_searching'
            /\ recursive_search_results' = {}
            /\ search_receiver' = {}
            /\ search_sender' = {}
      ]_vars

\* C7: a navigation whose read failed: the directory has entries and the
\* list shows none.
C7_Witness ==
    /\ last.event = "navigate"
    /\ last.read = "err"
    /\ Children(fs, current_dir) # {}
    /\ entries = <<>>

\* C8: a frame whose rename_entry or delete_entry call failed leaves
\* current_dir, entries, recursive_search_results, is_searching and both
\* channel ends as the frame's poll left them, and the file system and the
\* pending values as well.
C8_FailedMutationChangesNothing ==
    [][ Frame("mutate_err") =>
            LET w == Poll(World)
            IN  /\ current_dir' = w.app.current_dir
                /\ entries' = w.app.entries
                /\ recursive_search_results' = w.app.recursive_search_results
                /\ is_searching' = w.app.is_searching
                /\ search_sender' = w.app.search_sender
                /\ search_receiver' = w.app.search_receiver
                /\ chan' = w.chan
                /\ fs' = fs
      ]_vars

\* C8: a rename or delete has just failed while a search is running and
\* entries are listed.
C8_Witness ==
    /\ last.event = "mutate_err"
    /\ is_searching
    /\ search_receiver # {}
    /\ entries # <<>>

\* C9: when the worker of the session listened to has ended without sending,
\* a poll leaves what a Ready with an empty result leaves: an empty result
\* displayed, is_searching false, the handle released.
C9_DisconnectIsEmptyReady ==
    \A s \in search_receiver :
        (worker[s].state = "failed" /\ chan[s] = <<>>) =>
            LET w == Poll(World)
            IN  /\ \E r \in w.app.recursive_search_results : r.paths = {}
                /\ ~w.app.is_searching
                /\ w.app.search_receiver = {}

\* C10: the entries list is in ascending ordinal order of the entry names
\* (the names without the folder marker), which also excludes duplicates.
C10_EntriesSortedByName ==
    \A i, j \in 1..Len(entries) :
        i < j => StrLess(EntryName(entries[i]), EntryName(entries[j]))

\* The results that exist outside the worker threads: the one displayed and
\* those pending in a channel.
VisibleResults ==
    recursive_search_results
        \cup UNION { Range(chan[s]) : s \in Sessions }

\* The entries of tree f from start downwards, start included, found by
\* descending directory by directory.
RECURSIVE EntriesFrom(_, _)
EntriesFrom(f, start) ==
    {start} \cup UNION { EntriesFrom(f, Push(start, n)) : n \in Children(f, start) }

\* Name n, lowercased, has Q at some position.
NameContains(n, Q) ==
    \E i \in 1..(Len(n) + 1) :
        /\ i + Len(Q) <= Len(n) + 1
        /\ \A k \in 1..Len(Q) : LowerChar(n[i + k - 1]) = Q[k]

\* The entries of the subtree at start whose final component contains Q.
EntriesNamed(f, start, Q) ==
    { p \in EntriesFrom(f, start) : Len(p) > 0 /\ NameContains(p[Len(p)], Q) }

\* C11: for a non-empty lowercase query Q and a directory tree,
\* find_entries_recursively returns exactly the entries of the subtree
\* (files and directories at every depth, the start path included) whose
\* final path component, lowercased, contains Q: for every start directory
\* and query of the bounded sets, and for every result a worker has sent.
C11_WalkFindsExactlyTheMatches ==
    /\ \A start \in Paths, q \in WalkQueries :
           IsDir(fs, start) =>
               FindEntriesRecursively(fs, start, ToLowercase(q))
                   = EntriesNamed(fs, start, ToLowercase(q))
    /\ \A r \in VisibleResults :
           r.query # <<>> /\ r.paths = EntriesNamed(fs, r.root, r.query)

\* C11: a displayed result of a walk that started in a directory whose own
\* name matches: the directory is in the result, a file inside it whose
\* name does not match is not.
C11_Witness ==
    \E r \in recursive_search_results :
        /\ r.root # Root
        /\ r.root \in r.paths
        /\ \E n \in Names :
               /\ Kind(fs, Push(r.root, n)) = "file"
               /\ Push(r.root, n) \notin r.paths

\* C12: results are delivered whole: every result displayed or pending is
\* the complete result of the walk of one session whose worker has finished
\* and sent, and while a worker is still walking nothing of its session is
\* displayed or pending, however its visits interleave with the frames.
C12_ResultsAreWholeWalks ==
    /\ \A r \in VisibleResults :
           /\ worker[r.session].state = "sent"
           /\ r.paths = FindEntriesRecursively(fs, r.root, r.query)
    /\ \A s \in Sessions :
           worker[s].state = "running" =>
               /\ chan[s] = <<>>
               /\ \A r \in recursive_search_results : r.session # s

\* C12: the non-empty result of session 2 is displayed while the worker of
\* the abandoned session 1 is in the middle of its walk, a match already
\* seen and entries still to visit.
C12_Witness ==
    /\ \E r \in recursive_search_results : r.session = 2 /\ r.paths # {}
    /\ worker[1].state = "running"
    /\ \E p \in worker[1].seen : Matches(p, worker[1].query)
    /\ Subtree(fs, worker[1].dir) \ worker[1].seen # {}

\* C13: a rename whose new name is the name of another existing entry of the
\* current directory fails and leaves the file system unchanged (the old
\* entry still present, the existing one untouched).
C13_RenameOntoExistingFails ==
    [][ \A e \in AllEntries, new_name \in Names :
            ( /\ UpdateRenameConfirm(e, new_name)
              /\ new_name # EntryName(e)
              /\ Exists(fs, Push(Poll(World).app.current_dir, new_name)) )
            => /\ last'.event = "mutate_err"
               /\ fs' = fs
      ]_vars

\* C14: starting a non-empty search leaves no result displayed, and in every
\* reachable state a running search excludes displayed results
\* (is_searching implies recursive_search_results = None).
C14_SearchingShowsNoResults ==
    /\ [](is_searching => recursive_search_results = {})
    /\ [][ Frame("search") =>
               /\ is_searching'
               /\ recursive_search_results' = {}
         ]_vars

\* C14: the result of search 1 was stored, and search 2 has just been started
\* and is running with nothing displayed.
C14_Witness ==
    /\ last.event = "search"
    /\ deliveries[1] = 1
    /\ nextSession = 3
    /\ is_searching
    /\ recursive_search_results = {}

\* C15: every frame that reloads the directory (a navigation, a successful
\* rename or delete) leaves rename_mode None.
C15_ReloadDiscardsRenameMode ==
    [][ (Frame("navigate") \/ Frame("mutate_ok")) => rename_mode' = {} ]_vars

\* C16: activating a displayed search result that is a directory makes it
\* the current directory, reloads the entries and discards the search
\* (nothing displayed, no session); activating one that is a file leaves
\* current_dir, entries and the displayed results as they are.
C16_OpenResult ==
    [][ \A p \in Paths :
            UpdateOpenResult(p) =>
                LET w == Poll(World)
                IN  IF IsDir(fs, p)
                    THEN /\ current_dir' = p
                         /\ entries' = IF last'.read = "ok"
                                       THEN ListedEntries(fs', p) ELSE <<>>
                         /\ recursive_search_results' = {}
                         /\ ~is_searching'
                         /\ search_receiver' = {}
                         /\ search_sender' = {}
                    ELSE /\ current_dir' = w.app.current_dir
                         /\ entries' = w.app.entries
                         /\ recursive_search_results' = w.app.recursive_search_results
                         /\ recursive_search_results' # {}
      ]_vars

\* C16: the result of the one search, started in the root, was stored, and
\* a navigation has made a directory below the root current and listed it,
\* with nothing displayed any more.
C16_Witness ==
    /\ last.event = "navigate"
    /\ last.read = "ok"
    /\ nextSession = 2
    /\ deliveries[1] = 1
    /\ Len(current_dir) = 1
    /\ entries # <<>>
    /\ recursive_search_results = {}

\* C17: at most one search session is Running at a time: a frame starts a
\* search only when, after its poll, is_searching is false and no channel is
\* listened to (every earlier session delivered or abandoned), and a running
\* search is always the session started last.
C17_OneRunningSearch ==
    /\ [](is_searching => search_receiver = {LatestSession})
    /\ [][ Frame("search") =>
               LET w == Poll(World)
               IN  /\ ~w.app.is_searching
                   /\ w.app.search_receiver = {}
                   /\ \A s \in Sessions : w.chan[s] = <<>>
                   /\ search_receiver' = {nextSession}
                   /\ nextSession' = nextSession + 1
         ]_vars

\* C17: search 2 has just been started after search 1 was abandoned; the
\* thread of search 1 is still walking, and only session 2 is listened to.
C17_Witness ==
    /\ last.event = "search"
    /\ nextSession = 3
    /\ worker[1].state = "running"
    /\ worker[2].state = "running"
    /\ is_searching
    /\ search_receiver = {2}

\* Worker s ends in this step.
WorkerEnds(s) == worker[s].state = "running" /\ worker'[s].state # "running"

\* C18 as stated: every worker that has ended has pushed exactly one result
\* into the channel of its session.
C18_EveryWorkerPushesOne ==
    \A s \in Sessions :
        worker[s].state \in {"sent", "dropped", "failed"} => worker[s].state = "sent"

\* C18 as amended: a worker pushes at most one result, and only into the
\* channel of its own session: exactly one when its walk completes while
\* that session is still listened to, none when the session was abandoned
\* before or when the thread panics; no channel ever holds more than one
\* pending value, and a session's pending and stored values together are at
\* most one.
C18_AtMostOnePushIntoOwnChannel ==
    /\ [](\A s \in Sessions :
             /\ Len(chan[s]) + deliveries[s] <= 1
             /\ \A v \in Range(chan[s]) : v.session = s
             /\ chan[s] # <<>> => worker[s].state = "sent")
    /\ [][ \A s \in Sessions :
               WorkerEnds(s) =>
                   /\ \A t \in Sessions \ {s} : chan'[t] = chan[t]
                   /\ Len(chan'[s]) = Len(chan[s]) +
                          (IF worker'[s].state = "sent" THEN 1 ELSE 0)
                   /\ worker'[s].state = "sent" => s \in search_receiver
                   /\ worker'[s].state = "dropped" => s \notin search_receiver
         ]_vars

\* C18: the worker of the abandoned session 1 has ended without a push, the
\* worker of session 2 has pushed, and its one value is pending.
C18_Witness ==
    /\ worker[1].state = "dropped"
    /\ worker[2].state = "sent"
    /\ Len(chan[2]) = 1
    /\ chan[1] = <<>>

\* C19: whenever results are displayed they were computed by a walk rooted
\* at the current value of current_dir, and so is whatever the session
\* listened to is computing or has pending; every step that changes
\* current_dir leaves no results displayed and no session listened to.
C19_ResultsRootedAtCurrentDir ==
    /\ [](/\ \A r \in recursive_search_results : r.root = current_dir
          /\ \A s \in search_receiver :
                 /\ worker[s].state = "running" => worker[s].dir = current_dir
                 /\ \A v \in Range(chan[s]) : v.root = current_dir)
    /\ [][ current_dir' # current_dir =>
               /\ recursive_search_results' = {}
               /\ ~is_searching'
               /\ search_receiver' = {}
               /\ search_sender' = {}
               /\ \A s \in Sessions : chan'[s] = <<>>
         ]_vars

\* C19: the result of search 2, walked from the current directory, is
\* displayed while the thread of search 1, started in another directory and
\* abandoned by the navigation, is still running.
C19_Witness ==
    /\ \E r \in recursive_search_results :
           r.session = 2 /\ r.root = current_dir /\ r.paths # {}
    /\ worker[1].state = "running"
    /\ worker[1].dir # current_dir

\* C20: whenever a search is running or its results are displayed, the
\* lowercased search_query is the query that was given to the worker of
\* that search.
C20_QueryLabelsItsSearch ==
    /\ \A r \in recursive_search_results : ToLowercase(search_query) = r.query
    /\ is_searching =>
           \A s \in search_receiver :
               /\ worker[s].state = "running" =>
                      ToLowercase(search_query) = worker[s].query
               /\ \A v \in Range(chan[s]) : ToLowercase(search_query) = v.query

\* C21: in every state reachable through the UI the three session fields
\* agree: is_searching is true exactly when search_receiver is Some, and
\* search_receiver is Some exactly when search_sender is Some (and then both
\* are the ends of the same channel).
C21_SessionFieldsAgree ==
    /\ is_searching <=> search_receiver # {}
    /\ search_receiver # {} <=> search_sender # {}
    /\ search_receiver = search_sender

\* C21: the result of search 1 was stored, which cleared all three fields,
\* and search 2 is running with all three set.
C21_Witness ==
    /\ deliveries[1] = 1
    /\ is_searching
    /\ search_receiver = {2}
    /\ search_sender = {2}
====
